---------------------------- MODULE Spec2Model ----------------------------
(***************************************************************************)
(* pi-led-racer: four standalone Raspberry Pi scripts.                     *)
(*                                                                         *)
(*   arcade_button_reader.py  polling loop with edge detection             *)
(*   simple_led_control.py    on / off / blink x5 with try/finally cleanup *)
(*   ws2812_led_control.py    WS2812Controller (pixel buffer, brightness,  *)
(*                            animations, wheel) and its main program      *)
(*                            (demo sequence, command loop, SIGINT)        *)
(*                                                                         *)
(* The scripts share no state, so every specification below moves the      *)
(* variables of one script and leaves the others at their initial values.  *)
(***************************************************************************)
EXTENDS Integers, Sequences, FiniteSets

VARIABLES
    \* arcade_button_reader.py, main()
    last_state,     \* previous sample
    press_count,    \* number of presses reported
    samples,        \* history: the raw samples read so far
    events,         \* history: what the loop printed at each sample
    \* simple_led_control.py, main()
    ledPc,          \* position in main()
    ledI,           \* blink loop counter i
    ledOn,          \* level driven on GPIO 18
    ledClosed,      \* led.close() has released the pin
    ledCause,       \* how the try block was left: none / KeyboardInterrupt / Exception
    ledAt,          \* history: the position at which the try block was left
    \* WS2812Controller.wheel
    wheelPos,       \* argument pos
    wheelOut,       \* returned triple (<<>> before the call)
    \* ws2812_led_control.py: the WS2812Controller object
    pixels,         \* the strip's pixel buffer, index -> <<r, g, b>>
    brightness,     \* self.brightness
    \* the call in progress (or just returned) and its loop counters
    pc,             \* idle / running / returned; in main(): demo / prompt / finally / exited
    op,             \* the method being executed
    color,          \* its colour argument
    arg,            \* its integer argument (pixel_id, brightness, iterations, cycles, duration)
    j,              \* outer loop counter
    q,              \* inner loop counter
    k,              \* innermost loop counter (breathing_effect)
    \* what the call in progress has done to the hardware so far
    start,          \* history: the pixel buffer when the call began
    flushes,        \* number of strip.show() calls made by the call
    frame,          \* the frame most recently flushed by the call
    ignored,        \* history: out-of-range indices set_pixel was given and dropped
    stripOob,       \* history: out-of-range indices handed to strip.setPixelColor
    \* a second controller running the same theater_chase call
    pixelsB,        \* its pixel buffer
    frameB,         \* the frame it flushed most recently
    startB,         \* history: its pixel buffer when the call began
    \* ws2812_led_control.py: main()
    shown,          \* the frame the hardware shows (the last one flushed)
    didShow,        \* the step just taken called strip.show()
    stage,          \* position in demo_sequence (1..10), 0 outside it
    inLoop,         \* control is inside `while True` (and its inner try)
    lastCmd,        \* command: the line last read, as its words
    readTick,       \* history: parity of the number of lines read
    message,        \* the line last printed
    interrupted     \* history: where SIGINT found the program (none if it has not come)

btnVars   == <<last_state, press_count, samples, events>>
ledVars   == <<ledPc, ledI, ledOn, ledClosed, ledCause, ledAt>>
wheelVars == <<wheelPos, wheelOut>>
callVars  == <<pc, op, color, arg, j, q, k>>
logVars   == <<start, flushes, frame, ignored, stripOob>>
twinVars  == <<pixelsB, frameB, startB>>
mainVars  == <<shown, didShow, stage, inLoop, lastCmd, readTick, message, interrupted>>
ctlVars   == <<pixels, brightness, callVars, logVars, twinVars, mainVars>>
vars      == <<btnVars, ledVars, wheelVars, ctlVars>>

----------------------------------------------------------------------------
(* Bounds of the model *)

MaxSamples == 6     \* samples the button loop reads before the model stops it
LedCount   == 4     \* led_count of the controller (main() builds one of 30)
MaxIter    == 2     \* largest iterations / cycles argument of an animation call

----------------------------------------------------------------------------
(* arcade_button_reader.py *)

HIGH == 1
LOW  == 0

\* A level-triggered reading of the same loop: reports on the level alone.
EdgeEventLevel(current_state, last) ==
    IF current_state = LOW THEN "pressed" ELSE "released"

\* The if / elif of the polling loop: what one sample makes the loop report.
EdgeEvent(current_state, last) ==
    IF current_state = LOW /\ last = HIGH THEN "pressed"
    ELSE IF current_state = HIGH /\ last = LOW THEN "released"
    ELSE "none"

ButtonInit ==
    /\ last_state = HIGH
    /\ press_count = 0
    /\ samples = << >>
    /\ events = << >>

\* One pass of `while True`: read, compare with last_state, report, remember.
Poll(current_state) ==
    /\ Len(samples) < MaxSamples
    /\ LET ev == EdgeEvent(current_state, last_state) IN
         /\ press_count' = IF ev = "pressed" THEN press_count + 1 ELSE press_count
         /\ events' = Append(events, ev)
    /\ last_state' = current_state
    /\ samples' = Append(samples, current_state)
    /\ UNCHANGED <<ledVars, wheelVars, ctlVars>>

----------------------------------------------------------------------------
(* WS2812Controller.wheel *)

\* wheel without the `pos -= 85` / `pos -= 170` rebasing of the upper bands.
WheelNoRebase(pos) ==
    IF pos < 85 THEN <<pos * 3, 255 - pos * 3, 0>>
    ELSE IF pos < 170 THEN <<255 - pos * 3, 0, pos * 3>>
    ELSE <<0, pos * 3, 255 - pos * 3>>

Wheel(pos) ==
    IF pos < 85 THEN <<pos * 3, 255 - pos * 3, 0>>
    ELSE IF pos < 170 THEN <<255 - (pos - 85) * 3, 0, (pos - 85) * 3>>
    ELSE <<0, (pos - 170) * 3, 255 - (pos - 170) * 3>>

WheelIdle ==
    /\ wheelPos = 0
    /\ wheelOut = << >>

WheelInit ==
    /\ wheelPos \in 0..255
    /\ wheelOut = << >>

\* A call of wheel(pos) with the position drawn at Init.
WheelCall ==
    /\ wheelOut = << >>
    /\ wheelOut' = Wheel(wheelPos)
    /\ UNCHANGED <<wheelPos, btnVars, ledVars, ctlVars>>

----------------------------------------------------------------------------
(* simple_led_control.py *)

\* Positions of main() inside the try block, in program order.  The blink
\* loop body is on / sleep / off / sleep, repeated for i = 0..4.
LedTrySteps ==
    {"on", "sleep_on", "off", "sleep_off",
     "blink_on", "blink_sleep_on", "blink_off", "blink_sleep_off", "completed"}

\* Positions at which the code calls into gpiozero and may get an error back.
LedDriverSteps == {"on", "off", "blink_on", "blink_off"}

LedInit ==
    /\ ledPc = "on"
    /\ ledI = 0
    /\ ledOn = FALSE           \* LED(18) starts the pin low
    /\ ledClosed = FALSE
    /\ ledCause = "none"
    /\ ledAt = "none"

\* A finally block that releases the pin without switching the LED off first.
LedFinallyOffSkipped(on) == on

\* `led.off()` of the finally block: the level left on the pin.
LedFinallyOff(on) == FALSE

\* Test 1: led.on(), then time.sleep(2).
LedTurnOn ==
    /\ ledPc = "on"
    /\ ledOn' = TRUE
    /\ ledPc' = "sleep_on"
    /\ UNCHANGED <<ledI, ledClosed, ledCause, ledAt, btnVars, wheelVars, ctlVars>>

LedSleepOn ==
    /\ ledPc = "sleep_on"
    /\ ledPc' = "off"
    /\ UNCHANGED <<ledI, ledOn, ledClosed, ledCause, ledAt, btnVars, wheelVars, ctlVars>>

\* Test 2: led.off(), then time.sleep(2).
LedTurnOff ==
    /\ ledPc = "off"
    /\ ledOn' = FALSE
    /\ ledPc' = "sleep_off"
    /\ UNCHANGED <<ledI, ledClosed, ledCause, ledAt, btnVars, wheelVars, ctlVars>>

\* End of the second sleep: enter `for i in range(5)`.
LedSleepOff ==
    /\ ledPc = "sleep_off"
    /\ ledPc' = "blink_on"
    /\ UNCHANGED <<ledI, ledOn, ledClosed, ledCause, ledAt, btnVars, wheelVars, ctlVars>>

\* Test 3, loop body.
LedBlinkOn ==
    /\ ledPc = "blink_on"
    /\ ledI < 5
    /\ ledOn' = TRUE
    /\ ledPc' = "blink_sleep_on"
    /\ UNCHANGED <<ledI, ledClosed, ledCause, ledAt, btnVars, wheelVars, ctlVars>>

LedBlinkSleepOn ==
    /\ ledPc = "blink_sleep_on"
    /\ ledPc' = "blink_off"
    /\ UNCHANGED <<ledI, ledOn, ledClosed, ledCause, ledAt, btnVars, wheelVars, ctlVars>>

LedBlinkOff ==
    /\ ledPc = "blink_off"
    /\ ledOn' = FALSE
    /\ ledPc' = "blink_sleep_off"
    /\ UNCHANGED <<ledI, ledClosed, ledCause, ledAt, btnVars, wheelVars, ctlVars>>

\* End of the loop body: next i, or leave the loop after the fifth blink.
LedBlinkSleepOff ==
    /\ ledPc = "blink_sleep_off"
    /\ ledI' = ledI + 1
    /\ ledPc' = IF ledI + 1 < 5 THEN "blink_on" ELSE "completed"
    /\ UNCHANGED <<ledOn, ledClosed, ledCause, ledAt, btnVars, wheelVars, ctlVars>>

\* The success message; the try block ends and control falls into finally.
LedCompleted ==
    /\ ledPc = "completed"
    /\ ledPc' = "finally"
    /\ UNCHANGED <<ledI, ledOn, ledClosed, ledCause, ledAt, btnVars, wheelVars, ctlVars>>

\* Ctrl+C anywhere inside the try block: `except KeyboardInterrupt` prints
\* and control falls into finally.
LedInterrupt ==
    /\ ledPc \in LedTrySteps
    /\ ledCause' = "KeyboardInterrupt"
    /\ ledAt' = ledPc
    /\ ledPc' = "finally"
    /\ UNCHANGED <<ledI, ledOn, ledClosed, btnVars, wheelVars, ctlVars>>

\* A driver call raises before taking effect: `except Exception` prints and
\* control falls into finally.
LedError ==
    /\ ledPc \in LedDriverSteps
    /\ ledCause' = "Exception"
    /\ ledAt' = ledPc
    /\ ledPc' = "finally"
    /\ UNCHANGED <<ledI, ledOn, ledClosed, btnVars, wheelVars, ctlVars>>

\* finally, first statement: led.off().
LedFinally ==
    /\ ledPc = "finally"
    /\ ledOn' = LedFinallyOff(ledOn)
    /\ ledPc' = "finally_close"
    /\ UNCHANGED <<ledI, ledClosed, ledCause, ledAt, btnVars, wheelVars, ctlVars>>

\* finally, second statement: led.close(); main() returns and the program ends.
LedClose ==
    /\ ledPc = "finally_close"
    /\ ledClosed' = TRUE
    /\ ledPc' = "done"
    /\ UNCHANGED <<ledI, ledOn, ledCause, ledAt, btnVars, wheelVars, ctlVars>>

----------------------------------------------------------------------------
(* WS2812Controller: buffer and brightness *)

Black == <<0, 0, 0>>
Red   == <<255, 0, 0>>
Green == <<0, 255, 0>>
Blue  == <<0, 0, 255>>

\* Colours that callers pass.
Palette == {Black, Red, Blue}

\* Colours that random_colors draws in main() (a sample of the 256^3).
RandomPalette == {Red, Blue}

\* Arguments tried for the brightness parameter of __init__ and set_brightness.
BrightnessArgs == {-5, 0, 128, 255, 300}

PixelIds   == 0..(LedCount - 1)
Fill(c)    == [i \in PixelIds |-> c]
AllBuffers == [PixelIds -> Palette]
NoFrame    == << >>

Min(a, b) == IF a < b THEN a ELSE b
Max(a, b) == IF a > b THEN a ELSE b

\* A range check that forgets the upper end of the strip.
InRangeNoUpper(pixel_id) == 0 <= pixel_id

\* set_pixel's guard: 0 <= pixel_id < self.led_count.
InRange(pixel_id) == 0 <= pixel_id /\ pixel_id < LedCount

\* strip.setPixelColor(n, c) of the library: writes slot n of the pixel array;
\* an index outside the array does not land in it.
StripSetPixelColor(buf, n, c) ==
    IF n \in DOMAIN buf THEN [buf EXCEPT ![n] = c] ELSE buf

\* set_pixel(pixel_id, color).
SetPixel(buf, pixel_id, c) ==
    IF InRange(pixel_id) THEN StripSetPixelColor(buf, pixel_id, c) ELSE buf

\* The indices of ids that set_pixel hands on to strip.setPixelColor, and
\* those it drops.
PassedToStrip(ids) == {id \in ids : InRange(id)}
Dropped(ids)       == {id \in ids : ~InRange(id)}

\* set_pixel called once per element of the sequence ids, in order, with the
\* colour colf[id].
RECURSIVE Paint(_, _, _)
Paint(buf, ids, colf) ==
    IF ids = << >> THEN buf
    ELSE Paint(SetPixel(buf, Head(ids), colf[Head(ids)]), Tail(ids), colf)

SeqRange(ids) == {ids[n] : n \in DOMAIN ids}

\* set_all_pixels(color): strip.setPixelColor(i, color) for i in range(led_count).
SetAllPixels(buf, c) == [i \in PixelIds |-> c]

\* set_brightness: max(0, min(255, brightness)).
ClampBrightness(level) == Max(0, Min(255, level))

\* color_wipe that repaints pixel 0 on every pass instead of pixel i.
WipePixelFirst(buf, i, c) == SetPixel(buf, 0, c)

\* color_wipe, pass i of the loop: set_pixel(i, color).
WipePixel(buf, i, c) == SetPixel(buf, i, c)

\* theater_chase: the indices i + q for i in range(0, led_count, 3).
ChaseIdx(qq) == [n \in 1..((LedCount + 2) \div 3) |-> 3 * (n - 1) + qq]

\* theater_chase, first inner loop: set_pixel(i + q, color).
ChaseLit(buf, qq, c) ==
    Paint(buf, ChaseIdx(qq), [id \in SeqRange(ChaseIdx(qq)) |-> c])

\* A chase that leaves the lit pixels on after the frame.
ChaseDarkSkipped(buf, qq) == buf

\* theater_chase, second inner loop: set_pixel(i + q, (0, 0, 0)).
ChaseDark(buf, qq) ==
    Paint(buf, ChaseIdx(qq), [id \in SeqRange(ChaseIdx(qq)) |-> Black])

\* breathing_effect: the brightness of pass kk of the fade-in loop
\* range(0, 255, 5) (phase 0) and of the fade-out loop range(255, 0, -5)
\* (phase 1); both loops make 51 passes.
BreathLevel(phase, kk) == IF phase = 0 THEN 5 * kk ELSE 255 - 5 * kk
BreathPasses == 51

----------------------------------------------------------------------------
(* WS2812Controller: calls made on a constructed controller *)

\* The state right after __init__(brightness = b): brightness is stored as
\* given and the strip's pixel array starts cleared.
CtlInit ==
    /\ pixels = Fill(Black)
    /\ brightness \in BrightnessArgs
    /\ pc = "idle" /\ op = "none" /\ color = Black /\ arg = 0
    /\ j = 0 /\ q = 0 /\ k = 0
    /\ start = NoFrame /\ flushes = 0 /\ frame = NoFrame
    /\ ignored = {} /\ stripOob = {}
    /\ pixelsB = NoFrame /\ frameB = NoFrame /\ startB = NoFrame
    /\ shown = Fill(Black) /\ didShow = FALSE
    /\ stage = 0 /\ inLoop = FALSE
    /\ lastCmd = << >> /\ readTick = 0
    /\ message = "none" /\ interrupted = "none"

\* The controller of another specification's script: built as main() builds
\* it and not used.
CtlIdle ==
    /\ pixels = Fill(Black)
    /\ brightness = 128
    /\ pc = "idle" /\ op = "none" /\ color = Black /\ arg = 0
    /\ j = 0 /\ q = 0 /\ k = 0
    /\ start = NoFrame /\ flushes = 0 /\ frame = NoFrame
    /\ ignored = {} /\ stripOob = {}
    /\ pixelsB = NoFrame /\ frameB = NoFrame /\ startB = NoFrame
    /\ shown = Fill(Black) /\ didShow = FALSE
    /\ stage = 0 /\ inLoop = FALSE
    /\ lastCmd = << >> /\ readTick = 0
    /\ message = "none" /\ interrupted = "none"

ctlRest == <<twinVars, mainVars, btnVars, ledVars, wheelVars>>

\* set_pixel(pixel_id, c)
CallSetPixel(pixel_id, c) ==
    /\ pc = "idle"
    /\ pixels' = SetPixel(pixels, pixel_id, c)
    /\ ignored' = Dropped({pixel_id})
    /\ stripOob' = stripOob \cup (PassedToStrip({pixel_id}) \ PixelIds)
    /\ pc' = "returned" /\ op' = "set_pixel" /\ color' = c /\ arg' = pixel_id
    /\ start' = pixels
    /\ UNCHANGED <<brightness, j, q, k, flushes, frame, ctlRest>>

\* set_all_pixels(c)
CallSetAllPixels(c) ==
    /\ pc = "idle"
    /\ pixels' = SetAllPixels(pixels, c)
    /\ pc' = "returned" /\ op' = "set_all_pixels" /\ color' = c
    /\ start' = pixels
    /\ UNCHANGED <<brightness, arg, j, q, k, flushes, frame, ignored, stripOob, ctlRest>>

\* clear(): set_all_pixels((0, 0, 0)); strip.show()
CallClear ==
    /\ pc = "idle"
    /\ pixels' = SetAllPixels(pixels, Black)
    /\ frame' = pixels'
    /\ flushes' = 1
    /\ pc' = "returned" /\ op' = "clear"
    /\ start' = pixels
    /\ UNCHANGED <<brightness, color, arg, j, q, k, ignored, stripOob, ctlRest>>

\* show(): strip.show()
CallShow ==
    /\ pc = "idle"
    /\ frame' = pixels
    /\ flushes' = 1
    /\ pc' = "returned" /\ op' = "show"
    /\ start' = pixels
    /\ UNCHANGED <<pixels, brightness, color, arg, j, q, k, ignored, stripOob, ctlRest>>

\* set_brightness(level)
CallSetBrightness(level) ==
    /\ pc = "idle"
    /\ brightness' = ClampBrightness(level)
    /\ pc' = "returned" /\ op' = "set_brightness" /\ arg' = level
    /\ start' = pixels
    /\ UNCHANGED <<pixels, color, j, q, k, flushes, frame, ignored, stripOob, ctlRest>>

\* color_wipe(c, wait_ms) is entered; its loop starts at i = 0.
CallColorWipe(c) ==
    /\ pc = "idle"
    /\ pc' = "running" /\ op' = "color_wipe" /\ color' = c
    /\ start' = pixels
    /\ UNCHANGED <<pixels, brightness, arg, j, q, k, flushes, frame, ignored, stripOob, ctlRest>>

\* One pass of color_wipe's loop: set_pixel(i, color); strip.show(); sleep.
\* The call returns after the pass for i = led_count - 1.
ColorWipeStep ==
    /\ pc = "running" /\ op = "color_wipe"
    /\ pixels' = WipePixel(pixels, j, color)
    /\ frame' = pixels'
    /\ flushes' = flushes + 1
    /\ j' = j + 1
    /\ pc' = IF j + 1 < LedCount THEN "running" ELSE "returned"
    /\ UNCHANGED <<brightness, op, color, arg, q, k, start, ignored, stripOob, ctlRest>>

\* theater_chase(c, wait_ms, iterations) is entered; with iterations = 0 the
\* outer loop is empty and the call returns at once.
CallTheaterChase(c, iterations) ==
    /\ pc = "idle"
    /\ pc' = IF iterations > 0 THEN "running" ELSE "returned"
    /\ op' = "theater_chase" /\ color' = c /\ arg' = iterations
    /\ start' = pixels
    /\ UNCHANGED <<pixels, brightness, j, q, k, flushes, frame, ignored, stripOob, ctlRest>>

\* One pass of theater_chase's `for q in range(3)`: light every third pixel
\* from q, strip.show(), sleep, darken the same pixels again.
TheaterChaseStep ==
    /\ pc = "running" /\ op = "theater_chase"
    /\ frame' = ChaseLit(pixels, q, color)
    /\ flushes' = flushes + 1
    /\ pixels' = ChaseDark(frame', q)
    /\ ignored' = ignored \cup Dropped(SeqRange(ChaseIdx(q)))
    /\ stripOob' = stripOob \cup (PassedToStrip(SeqRange(ChaseIdx(q))) \ PixelIds)
    /\ q' = (q + 1) % 3
    /\ j' = IF q = 2 THEN j + 1 ELSE j
    /\ pc' = IF q = 2 /\ j + 1 = arg THEN "returned" ELSE "running"
    /\ UNCHANGED <<brightness, op, color, arg, k, start, ctlRest>>

\* breathing_effect(c, cycles) is entered.
CallBreathingEffect(c, cycles) ==
    /\ pc = "idle"
    /\ pc' = "running" /\ op' = "breathing_effect" /\ color' = c /\ arg' = cycles
    /\ start' = pixels
    /\ UNCHANGED <<pixels, brightness, j, q, k, flushes, frame, ignored, stripOob, ctlRest>>

\* One pass of a fade loop: set_brightness(b); set_all_pixels(color);
\* strip.show(); sleep.  After the last pass of the last cycle the call
\* resets the brightness with set_brightness(255) and returns.
BreathingStep ==
    /\ pc = "running" /\ op = "breathing_effect"
    /\ pixels' = SetAllPixels(pixels, color)
    /\ frame' = pixels'
    /\ flushes' = flushes + 1
    /\ LET lastPass  == k + 1 = BreathPasses
           lastCycle == lastPass /\ q = 1 /\ j + 1 = arg
       IN  /\ k' = IF lastPass THEN 0 ELSE k + 1
           /\ q' = IF lastPass THEN 1 - q ELSE q
           /\ j' = IF lastPass /\ q = 1 THEN j + 1 ELSE j
           /\ pc' = IF lastCycle THEN "returned" ELSE "running"
           /\ brightness' = IF lastCycle THEN ClampBrightness(255)
                            ELSE ClampBrightness(BreathLevel(q, k))
    /\ UNCHANGED <<op, color, arg, start, ignored, stripOob, ctlRest>>

\* The caller takes the result; the record of the call is dropped.
Return ==
    /\ pc = "returned"
    /\ pc' = "idle" /\ op' = "none" /\ color' = Black /\ arg' = 0
    /\ j' = 0 /\ q' = 0 /\ k' = 0
    /\ start' = NoFrame /\ flushes' = 0 /\ frame' = NoFrame /\ ignored' = {}
    /\ UNCHANGED <<pixels, brightness, stripOob, ctlRest>>

----------------------------------------------------------------------------
(* Two controllers given the same theater_chase call *)

\* Both controllers are about to run theater_chase(color, wait_ms, arg): the
\* first on any buffer, the second on a buffer left by set_all_pixels.
ChaseInit ==
    /\ pixels \in AllBuffers
    /\ pixelsB \in {Fill(c) : c \in Palette}
    /\ brightness = 128
    /\ color \in Palette
    /\ arg \in 0..MaxIter
    /\ pc = (IF arg > 0 THEN "running" ELSE "returned")
    /\ op = "theater_chase"
    /\ j = 0 /\ q = 0 /\ k = 0
    /\ start = pixels /\ startB = pixelsB
    /\ flushes = 0 /\ frame = NoFrame /\ frameB = NoFrame
    /\ ignored = {} /\ stripOob = {}
    /\ shown = Fill(Black) /\ didShow = FALSE
    /\ stage = 0 /\ inLoop = FALSE
    /\ lastCmd = << >> /\ readTick = 0
    /\ message = "none" /\ interrupted = "none"

\* The same pass of `for q in range(3)` on both controllers.
TwinChaseStep ==
    /\ pc = "running" /\ op = "theater_chase"
    /\ frame' = ChaseLit(pixels, q, color)
    /\ frameB' = ChaseLit(pixelsB, q, color)
    /\ flushes' = flushes + 1
    /\ pixels' = ChaseDark(frame', q)
    /\ pixelsB' = ChaseDark(frameB', q)
    /\ ignored' = ignored \cup Dropped(SeqRange(ChaseIdx(q)))
    /\ stripOob' = stripOob \cup (PassedToStrip(SeqRange(ChaseIdx(q))) \ PixelIds)
    /\ q' = (q + 1) % 3
    /\ j' = IF q = 2 THEN j + 1 ELSE j
    /\ pc' = IF q = 2 /\ j + 1 = arg THEN "returned" ELSE "running"
    /\ UNCHANGED <<brightness, op, color, arg, k, start, startB, mainVars, btnVars, ledVars, wheelVars>>

----------------------------------------------------------------------------
(* ws2812_led_control.py: signal_handler, cleanup, demo_sequence, main *)

\* The names bound at module level: the imports and the six definitions.
\* main() keeps its controller in the local variable `controller`.
GlobalNames ==
    {"time", "sys", "signal", "random", "Tuple", "signal_handler", "cleanup",
     "check_ws281x_library", "WS2812Controller", "demo_sequence", "main"}

\* cleanup(): `if 'strip' in globals(): strip.clear(); strip.show()`.
\* The buffer and the frame on the hardware after it has run.
CleanupPixels(buf) ==
    IF "strip" \in GlobalNames THEN SetAllPixels(buf, Black) ELSE buf
CleanupShown(buf, hw) ==
    IF "strip" \in GlobalNames THEN SetAllPixels(buf, Black) ELSE hw

\* signal_handler ends in sys.exit(0), which raises SystemExit where the
\* signal found the program.
RaisedBySignalHandler == "SystemExit"

\* `except KeyboardInterrupt` of the command loop.
InnerCatches(exc) == exc = "KeyboardInterrupt"

\* `except Exception` of main(): SystemExit and KeyboardInterrupt are not
\* subclasses of Exception.
OuterCatches(exc) == exc \notin {"SystemExit", "KeyboardInterrupt"}

\* A brightness command whose handler lets ValueError through.
BrightnessCatchesIndexOnly(exc) == exc = "IndexError"

\* `except (IndexError, ValueError)` of the brightness command.
BrightnessCatches(exc) == exc \in {"IndexError", "ValueError"}

\* demo_sequence: the calls it makes, in order.
DemoCall ==
    <<[op |-> "color_wipe",       color |-> Red,                 arg |-> 50],
      [op |-> "color_wipe",       color |-> Green,               arg |-> 50],
      [op |-> "color_wipe",       color |-> Blue,                arg |-> 50],
      [op |-> "theater_chase",    color |-> <<127, 127, 127>>,   arg |-> 3],
      [op |-> "rainbow",          color |-> Black,               arg |-> 1],
      [op |-> "rainbow_cycle",    color |-> Black,               arg |-> 2],
      [op |-> "breathing_effect", color |-> <<255, 100, 100>>,   arg |-> 2],
      [op |-> "random_colors",    color |-> Black,               arg |-> 3],
      [op |-> "police_lights",    color |-> Black,               arg |-> 3],
      [op |-> "clear",            color |-> Black,               arg |-> 0]>>

\* The effects the command loop starts: rainbow_cycle(20, 10),
\* police_lights(10), random_colors(10).
EffectCall ==
    [rainbow |-> [op |-> "rainbow_cycle", color |-> Black, arg |-> 10],
     police  |-> [op |-> "police_lights", color |-> Black, arg |-> 10],
     random  |-> [op |-> "random_colors", color |-> Black, arg |-> 10]]

\* The words of the command vocabulary that stand alone.
Vocabulary ==
    {"quit", "demo", "clear", "red", "green", "blue", "rainbow", "police", "random"}

\* Lines typed at the prompt, after .strip().lower(), as their words.
Commands ==
    {<<w>> : w \in Vocabulary \cup {"help", "brightness"}}
    \cup {<<"brightness", t>> : t \in {"128", "300", "-5", "abc", "1.5"}}
    \cup {<< >>}

\* int(text): the value, for the texts that are integer literals.
IntLiterals == {"128", "300", "-5"}
IntOf(text) == CASE text = "128" -> 128 [] text = "300" -> 300 [] text = "-5" -> -5

\* command.startswith('brightness '): the stripped line has the word
\* brightness, a space and something after it.
StartsWithBrightness(cmd) == Len(cmd) >= 2 /\ cmd[1] = "brightness"

\* int(command.split()[1]): the value, or the exception raised.
ParseBrightness(cmd) ==
    IF Len(cmd) < 2 THEN [ok |-> FALSE, exc |-> "IndexError", value |-> 0]
    ELSE IF cmd[2] \notin IntLiterals THEN [ok |-> FALSE, exc |-> "ValueError", value |-> 0]
    ELSE [ok |-> TRUE, exc |-> "none", value |-> IntOf(cmd[2])]

\* The if / elif chain of the command loop: the branch a line takes.
Dispatch(cmd) ==
    IF cmd = <<"quit">> THEN "quit"
    ELSE IF cmd = <<"demo">> THEN "demo"
    ELSE IF cmd = <<"clear">> THEN "clear"
    ELSE IF cmd \in {<<"red">>, <<"green">>, <<"blue">>} THEN "color"
    ELSE IF cmd \in {<<"rainbow">>, <<"police">>, <<"random">>} THEN "effect"
    ELSE IF StartsWithBrightness(cmd) THEN "brightness"
    ELSE "unknown"

ColorOf(word) == CASE word = "red" -> Red [] word = "green" -> Green [] word = "blue" -> Blue

\* rainbow, frame jj: set_pixel(i, wheel((i + j) & 255)) for every i.
RainbowFrame(buf, jj) ==
    Paint(buf, [n \in 1..LedCount |-> n - 1],
          [i \in PixelIds |-> Wheel((i + jj) % 256)])

\* rainbow_cycle, frame jj: set_pixel(i, wheel((int(i * 256 / led_count) + j) & 255)).
RainbowCycleFrame(buf, jj) ==
    Paint(buf, [n \in 1..LedCount |-> n - 1],
          [i \in PixelIds |-> Wheel((((i * 256) \div LedCount) + jj) % 256)])

\* police_lights: the four frames of one round (0.2 s, 0.1 s, 0.2 s, 0.1 s).
PoliceColor(phase) ==
    CASE phase = 0 -> Red [] phase = 1 -> Black [] phase = 2 -> Blue [] phase = 3 -> Black

\* `while time.time() - start_time < duration` after `rounds` passes, each of
\* which sleeps 0.1 s in random_colors and 0.6 s in police_lights.
TimeLeft(name, rounds, duration) ==
    rounds * (IF name = "random_colors" THEN 1 ELSE 6) < duration * 10

\* main() has registered signal_handler, built the controller
\* (brightness = 128) and is about to run demo_sequence.
MainInit ==
    /\ pixels = Fill(Black)
    /\ brightness = 128
    /\ pc = "running" /\ stage = 1
    /\ op = DemoCall[1].op /\ color = DemoCall[1].color /\ arg = DemoCall[1].arg
    /\ j = 0 /\ q = 0 /\ k = 0
    /\ start = NoFrame /\ flushes = 0 /\ frame = NoFrame
    /\ ignored = {} /\ stripOob = {}
    /\ pixelsB = NoFrame /\ frameB = NoFrame /\ startB = NoFrame
    /\ shown = Fill(Black) /\ didShow = FALSE
    /\ inLoop = FALSE
    /\ lastCmd = << >> /\ readTick = 0
    /\ message = "none" /\ interrupted = "none"

mainRest == <<logVars, twinVars, btnVars, ledVars, wheelVars>>

\* The call in progress returns: demo_sequence goes on to its next call, or
\* (after its last call, or after a single effect) control is at the prompt.
Finish ==
    /\ j' = 0 /\ q' = 0 /\ k' = 0
    /\ IF stage \in 1..9
       THEN /\ stage' = stage + 1
            /\ op' = DemoCall[stage + 1].op
            /\ color' = DemoCall[stage + 1].color
            /\ arg' = DemoCall[stage + 1].arg
            /\ pc' = "running"
            /\ UNCHANGED <<inLoop, message>>
       ELSE /\ stage' = 0
            /\ op' = "none" /\ color' = Black /\ arg' = 0
            /\ pc' = "prompt"
            /\ inLoop' = TRUE
            /\ message' = IF stage = 10 THEN "demo_complete" ELSE message

Continue == UNCHANGED <<pc, op, color, arg, stage, inLoop, message>>

\* color_wipe, one pass.
MainColorWipeStep ==
    /\ pc = "running" /\ op = "color_wipe"
    /\ pixels' = WipePixel(pixels, j, color)
    /\ shown' = pixels' /\ didShow' = TRUE
    /\ IF j + 1 < LedCount THEN j' = j + 1 /\ UNCHANGED <<q, k>> /\ Continue ELSE Finish
    /\ UNCHANGED <<brightness, lastCmd, readTick, interrupted, mainRest>>

\* theater_chase, one pass of `for q in range(3)`.
MainTheaterChaseStep ==
    /\ pc = "running" /\ op = "theater_chase"
    /\ shown' = ChaseLit(pixels, q, color) /\ didShow' = TRUE
    /\ pixels' = ChaseDark(shown', q)
    /\ IF q = 2 /\ j + 1 = arg THEN Finish
       ELSE /\ q' = (q + 1) % 3
            /\ j' = IF q = 2 THEN j + 1 ELSE j
            /\ UNCHANGED k /\ Continue
    /\ UNCHANGED <<brightness, lastCmd, readTick, interrupted, mainRest>>

\* rainbow / rainbow_cycle, one frame of `for j in range(256 * iterations)`.
MainRainbowStep ==
    /\ pc = "running" /\ op \in {"rainbow", "rainbow_cycle"}
    /\ pixels' = IF op = "rainbow" THEN RainbowFrame(pixels, j)
                 ELSE RainbowCycleFrame(pixels, j)
    /\ shown' = pixels' /\ didShow' = TRUE
    /\ IF j + 1 < 256 * arg THEN j' = j + 1 /\ UNCHANGED <<q, k>> /\ Continue ELSE Finish
    /\ UNCHANGED <<brightness, lastCmd, readTick, interrupted, mainRest>>

\* breathing_effect, one pass of a fade loop (see BreathingStep).
MainBreathingStep ==
    /\ pc = "running" /\ op = "breathing_effect"
    /\ pixels' = SetAllPixels(pixels, color)
    /\ shown' = pixels' /\ didShow' = TRUE
    /\ LET lastPass  == k + 1 = BreathPasses
           lastCycle == lastPass /\ q = 1 /\ j + 1 = arg
       IN  IF lastCycle
           THEN brightness' = ClampBrightness(255) /\ Finish
           ELSE /\ brightness' = ClampBrightness(BreathLevel(q, k))
                /\ k' = IF lastPass THEN 0 ELSE k + 1
                /\ q' = IF lastPass THEN 1 - q ELSE q
                /\ j' = IF lastPass /\ q = 1 THEN j + 1 ELSE j
                /\ Continue
    /\ UNCHANGED <<lastCmd, readTick, interrupted, mainRest>>

\* random_colors, one frame: every pixel gets a colour drawn at random.
MainRandomStep ==
    /\ pc = "running" /\ op = "random_colors"
    /\ \E colf \in [PixelIds -> RandomPalette] :
           pixels' = Paint(pixels, [n \in 1..LedCount |-> n - 1], colf)
    /\ shown' = pixels' /\ didShow' = TRUE
    /\ IF TimeLeft(op, j + 1, arg) THEN j' = j + 1 /\ UNCHANGED <<q, k>> /\ Continue
       ELSE Finish
    /\ UNCHANGED <<brightness, lastCmd, readTick, interrupted, mainRest>>

\* police_lights, one of the four frames of a round.
MainPoliceStep ==
    /\ pc = "running" /\ op = "police_lights"
    /\ pixels' = SetAllPixels(pixels, PoliceColor(q))
    /\ shown' = pixels' /\ didShow' = TRUE
    /\ IF q = 3 /\ ~TimeLeft(op, j + 1, arg) THEN Finish
       ELSE /\ q' = (q + 1) % 4
            /\ j' = IF q = 3 THEN j + 1 ELSE j
            /\ UNCHANGED k /\ Continue
    /\ UNCHANGED <<brightness, lastCmd, readTick, interrupted, mainRest>>

\* demo_sequence's closing controller.clear().
MainClearStep ==
    /\ pc = "running" /\ op = "clear"
    /\ pixels' = SetAllPixels(pixels, Black)
    /\ shown' = pixels' /\ didShow' = TRUE
    /\ Finish
    /\ UNCHANGED <<brightness, lastCmd, readTick, interrupted, mainRest>>

\* input() returns the line cmd and the if / elif chain handles it.
Command(cmd) ==
    /\ pc = "prompt"
    /\ lastCmd' = cmd
    /\ readTick' = 1 - readTick
    /\ LET branch == Dispatch(cmd)
           parsed == ParseBrightness(cmd)
           call   == IF branch = "demo" THEN DemoCall[1] ELSE EffectCall[cmd[1]]
       IN
       CASE branch = "quit" ->
              /\ pc' = "finally"
              /\ didShow' = FALSE
              /\ UNCHANGED <<pixels, brightness, shown, op, color, arg, stage, message>>
         [] branch \in {"demo", "effect"} ->
              /\ pc' = "running"
              /\ stage' = IF branch = "demo" THEN 1 ELSE 0
              /\ op' = call.op /\ color' = call.color /\ arg' = call.arg
              /\ message' = IF branch = "demo" THEN "running_demo" ELSE "starting_effect"
              /\ didShow' = FALSE
              /\ UNCHANGED <<pixels, brightness, shown>>
         [] branch = "clear" ->
              /\ pixels' = SetAllPixels(pixels, Black)
              /\ shown' = pixels' /\ didShow' = TRUE
              /\ message' = "cleared"
              /\ UNCHANGED <<brightness, pc, op, color, arg, stage>>
         [] branch = "color" ->
              /\ pixels' = SetAllPixels(pixels, ColorOf(cmd[1]))
              /\ shown' = pixels' /\ didShow' = TRUE
              /\ message' = "color_set"
              /\ UNCHANGED <<brightness, pc, op, color, arg, stage>>
         [] branch = "brightness" /\ parsed.ok ->
              /\ brightness' = ClampBrightness(parsed.value)
              /\ message' = "brightness_set"
              /\ didShow' = FALSE
              /\ UNCHANGED <<pixels, shown, pc, op, color, arg, stage>>
         [] branch = "brightness" /\ ~parsed.ok /\ BrightnessCatches(parsed.exc) ->
              /\ message' = "invalid_brightness"
              /\ didShow' = FALSE
              /\ UNCHANGED <<pixels, brightness, shown, pc, op, color, arg, stage>>
         [] branch = "brightness" /\ ~parsed.ok /\ ~BrightnessCatches(parsed.exc) ->
              \* the exception leaves the loop: `except Exception` of main()
              /\ message' = "error"
              /\ pc' = "finally"
              /\ didShow' = FALSE
              /\ UNCHANGED <<pixels, brightness, shown, op, color, arg, stage>>
         [] branch = "unknown" ->
              /\ message' = "unknown_command"
              /\ didShow' = FALSE
              /\ UNCHANGED <<pixels, brightness, shown, pc, op, color, arg, stage>>
    /\ UNCHANGED <<j, q, k, inLoop, interrupted, mainRest>>

\* input() meets end of file: EOFError, caught by `except Exception`.
InputEof ==
    /\ pc = "prompt"
    /\ message' = "error"
    /\ pc' = "finally"
    /\ didShow' = FALSE
    /\ UNCHANGED <<pixels, brightness, shown, op, color, arg, stage, j, q, k,
                   inLoop, lastCmd, readTick, interrupted, mainRest>>

\* SIGINT: signal_handler prints, runs cleanup() and calls sys.exit(0).  The
\* exception it raises unwinds from where the program was: through the
\* command loop's `except KeyboardInterrupt` when inside the loop, then
\* through `except Exception` of main(), to finally.
Sigint ==
    /\ pc \in {"running", "prompt"}
    /\ interrupted' = IF pc = "prompt" THEN "prompt"
                      ELSE IF inLoop THEN "effect" ELSE "startup_demo"
    /\ LET exc    == RaisedBySignalHandler
           buf    == CleanupPixels(pixels)
           hw     == CleanupShown(pixels, shown)
       IN  IF inLoop /\ InnerCatches(exc)
           THEN \* "Stopping current effect...": controller.clear(), next pass
                /\ pixels' = SetAllPixels(buf, Black)
                /\ shown' = pixels' /\ didShow' = TRUE
                /\ message' = "stopping_effect"
                /\ pc' = "prompt"
                /\ op' = "none" /\ color' = Black /\ arg' = 0 /\ stage' = 0
                /\ j' = 0 /\ q' = 0 /\ k' = 0
           ELSE /\ pixels' = buf
                /\ shown' = hw /\ didShow' = ("strip" \in GlobalNames)
                /\ message' = IF OuterCatches(exc) THEN "error" ELSE "stopped_by_user"
                /\ pc' = "finally"
                /\ UNCHANGED <<op, color, arg, stage, j, q, k>>
    /\ UNCHANGED <<brightness, inLoop, lastCmd, readTick, mainRest>>

\* finally: cleanup(); main() returns or the pending exception ends the process.
Finally ==
    /\ pc = "finally"
    /\ pixels' = CleanupPixels(pixels)
    /\ shown' = CleanupShown(pixels, shown)
    /\ didShow' = ("strip" \in GlobalNames)
    /\ pc' = "exited"
    /\ UNCHANGED <<brightness, op, color, arg, stage, j, q, k, inLoop, lastCmd,
                   readTick, message, interrupted, mainRest>>

----------------------------------------------------------------------------
(* Specifications *)

ButtonNext == \E s \in {HIGH, LOW} : Poll(s)
InitButton == ButtonInit /\ LedInit /\ WheelIdle /\ CtlIdle
SpecButton == InitButton /\ [][ButtonNext]_vars

WheelNext == WheelCall
InitWheel == ButtonInit /\ LedInit /\ WheelInit /\ CtlIdle
SpecWheel == InitWheel /\ [][WheelNext]_vars

LedNext ==
    \/ LedTurnOn \/ LedSleepOn \/ LedTurnOff \/ LedSleepOff
    \/ LedBlinkOn \/ LedBlinkSleepOn \/ LedBlinkOff \/ LedBlinkSleepOff
    \/ LedCompleted \/ LedInterrupt \/ LedError \/ LedFinally \/ LedClose
InitLed == ButtonInit /\ LedInit /\ WheelIdle /\ CtlIdle
SpecLed == InitLed /\ [][LedNext]_vars

CtlNext ==
    \/ \E id \in -1..LedCount, c \in Palette : CallSetPixel(id, c)
    \/ \E c \in Palette : CallSetAllPixels(c)
    \/ CallClear
    \/ CallShow
    \/ \E level \in BrightnessArgs : CallSetBrightness(level)
    \/ \E c \in Palette : CallColorWipe(c)
    \/ ColorWipeStep
    \/ \E c \in Palette, n \in 0..MaxIter : CallTheaterChase(c, n)
    \/ TheaterChaseStep
    \/ \E c \in Palette, n \in 1..MaxIter : CallBreathingEffect(c, n)
    \/ BreathingStep
    \/ Return
InitCtl == ButtonInit /\ LedInit /\ WheelIdle /\ CtlInit
SpecCtl == InitCtl /\ [][CtlNext]_vars

ChaseNext == TwinChaseStep
InitChase == ButtonInit /\ LedInit /\ WheelIdle /\ ChaseInit
SpecChase == InitChase /\ [][ChaseNext]_vars

MainNext ==
    \/ MainColorWipeStep \/ MainTheaterChaseStep \/ MainRainbowStep
    \/ MainBreathingStep \/ MainRandomStep \/ MainPoliceStep \/ MainClearStep
    \/ \E cmd \in Commands : Command(cmd)
    \/ InputEof
    \/ Sigint
    \/ Finally
InitMain == ButtonInit /\ LedInit /\ WheelIdle /\ MainInit
SpecMain == InitMain /\ [][MainNext]_vars

----------------------------------------------------------------------------
(* Properties *)

PrevSample(n) == IF n = 1 THEN HIGH ELSE samples[n - 1]
Abs(x) == IF x < 0 THEN -x ELSE x

\* C3: a sample is reported "pressed" exactly when it is LOW after HIGH,
\* "released" exactly when it is HIGH after LOW, and nothing otherwise (the
\* sample before the first is HIGH); press_count is the number of "pressed"
\* reports; HIGH,HIGH,LOW,LOW,HIGH gives one press at the third sample (the
\* first LOW) and one release at the fifth.
C3_EdgeTriggered ==
    /\ Len(events) = Len(samples)
    /\ \A n \in 1..Len(samples) :
          /\ events[n] = "pressed" <=> (samples[n] = LOW /\ PrevSample(n) = HIGH)
          /\ events[n] = "released" <=> (samples[n] = HIGH /\ PrevSample(n) = LOW)
          /\ events[n] = "none" <=> samples[n] = PrevSample(n)
    /\ press_count = Cardinality({n \in 1..Len(events) : events[n] = "pressed"})
    /\ samples = <<HIGH, HIGH, LOW, LOW, HIGH>>
          => events = <<"none", "none", "pressed", "none", "released">>

C3_Witness ==
    /\ samples = <<HIGH, HIGH, LOW, LOW, HIGH>>
    /\ events = <<"none", "none", "pressed", "none", "released">>
    /\ press_count = 1

\* C7: for every position, wheel returns channels in 0..255 that sum to 255,
\* holds one channel at 0 per band (blue from 0, green from 85, red from 170)
\* while the other two move by exactly 3 per position, takes the values
\* (0,255,0), (255,0,0), (0,0,255) at 0, 85, 170, and differs from the next
\* position (255 wrapping to 0) by at most 3 in every channel.
C7_WheelCycle ==
    wheelOut # << >> =>
        LET p  == wheelPos
            w  == wheelOut
            nx == Wheel((p + 1) % 256)
            sameBand == p \notin {84, 169, 255}
        IN  /\ \A c \in 1..3 : w[c] \in 0..255
            /\ w[1] + w[2] + w[3] = 255
            /\ p < 85 => w[3] = 0
            /\ (85 <= p /\ p < 170) => w[2] = 0
            /\ 170 <= p => w[1] = 0
            /\ sameBand =>
                  Cardinality({c \in 1..3 : Abs(nx[c] - w[c]) = 3}) = 2
            /\ p = 0 => w = <<0, 255, 0>>
            /\ p = 85 => w = <<255, 0, 0>>
            /\ p = 170 => w = <<0, 0, 255>>
            /\ \A c \in 1..3 : Abs(nx[c] - w[c]) <= 3

C7_Witness == wheelPos = 169 /\ wheelOut = <<3, 0, 252>>

\* C2: when the single-LED program has terminated, whether its sequence
\* completed, raised an error or was interrupted, the LED is off and the pin
\* is released.
C2_LedOffAtExit == ledPc = "done" => (~ledOn /\ ledClosed)

C2_Witness ==
    /\ ledPc = "done"
    /\ ledCause = "KeyboardInterrupt"
    /\ ledAt = "blink_sleep_on"
    /\ ~ledOn /\ ledClosed

\* C4: the stored brightness is within 0..255 in every state of the
\* controller, from construction on, and set_brightness(level) stores
\* min(255, max(0, level)).
C4_BrightnessInRange ==
    /\ brightness \in 0..255
    /\ (pc = "returned" /\ op = "set_brightness")
          => brightness = Min(255, Max(0, arg))

\* C5: set_pixel with an index outside 0..led_count-1 leaves the buffer as it
\* was and flushes nothing; with an index inside it changes that one slot;
\* and no out-of-range index is ever handed to the strip, theater_chase's
\* indices i + q past the end included.
C5_OutOfRangeIgnored ==
    /\ stripOob = {}
    /\ DOMAIN pixels = PixelIds
    /\ (pc = "returned" /\ op = "set_pixel") =>
          /\ flushes = 0 /\ frame = NoFrame
          /\ arg \notin PixelIds => pixels = start
          /\ arg \in PixelIds =>
                \A i \in PixelIds :
                    pixels[i] = IF i = arg THEN color ELSE start[i]
    /\ op = "theater_chase" =>
          \A i \in ignored : i >= LedCount

C5_Witness ==
    /\ op = "theater_chase"
    /\ pc = "returned"
    /\ LedCount \in ignored
    /\ stripOob = {}

\* C6: color_wipe flushes once per pixel; its k-th frame has pixels 0..k-1 in
\* the colour and the others as they were before the call; on return it has
\* flushed led_count frames and every pixel of the buffer has the colour.
C6_ColorWipe ==
    op = "color_wipe" =>
        /\ flushes = j
        /\ j <= LedCount
        /\ j >= 1 =>
              frame = [i \in PixelIds |-> IF i < j THEN color ELSE start[i]]
        /\ pc = "running" => j < LedCount
        /\ pc = "returned" => (flushes = LedCount /\ pixels = Fill(color))

C6_Witness ==
    /\ op = "color_wipe" /\ pc = "running"
    /\ color = Red
    /\ flushes = 2
    /\ start = Fill(Blue)
    /\ frame = [i \in PixelIds |-> IF i < 2 THEN Red ELSE Blue]

\* The frame theater_chase shows at phase ph when nothing but the call itself
\* has written the buffer.
ChaseFrame(ph, c) == [i \in PixelIds |-> IF i % 3 = ph THEN c ELSE Black]

\* C8 as stated: theater_chase flushes 3 * iterations frames and each of them
\* is the same whatever the buffer held before the call.
C8_FramesIgnoreStart ==
    /\ pc = "returned" => flushes = 3 * arg
    /\ flushes >= 1 => frame = frameB

\* C8 amended: theater_chase flushes 3 * iterations frames; from the third
\* frame on each frame is a function of pixel index, phase and colour alone;
\* in the first two frames the pixels whose index mod 3 is above the phase
\* still show what the buffer held before the call.
C8_FramesFromThird ==
    /\ pc = "returned" => flushes = 3 * arg
    /\ flushes <= 3 * arg
    /\ flushes >= 3 =>
          /\ frame = ChaseFrame((flushes - 1) % 3, color)
          /\ frame = frameB
    /\ flushes \in {1, 2} =>
          \A i \in PixelIds :
              /\ i % 3 <= flushes - 1 => frame[i] = ChaseFrame(flushes - 1, color)[i]
              /\ i % 3 > flushes - 1 => (frame[i] = start[i] /\ frameB[i] = startB[i])

C8_Witness ==
    /\ pc = "returned" /\ arg = MaxIter
    /\ flushes = 3 * MaxIter
    /\ start = Fill(Blue) /\ startB = Fill(Red)
    /\ color = Red
    /\ frame = frameB

\* C1: when SIGINT has come and the process has exited, the buffer is all
\* black and the last frame flushed to the strip is all black.
C1_SigintClearsStrip ==
    (pc = "exited" /\ interrupted # "none")
        => (pixels = Fill(Black) /\ shown = Fill(Black))

\* The lines the command loop must report and recover from: a brightness
\* command with no argument or with one that is no integer, and a word
\* outside the vocabulary.
IsMalformed(cmd) ==
    /\ cmd # << >>
    /\ IF cmd[1] = "brightness"
       THEN Len(cmd) = 1 \/ cmd[2] \notin IntLiterals
       ELSE cmd[1] \notin Vocabulary

\* C9: reading a malformed command changes neither the brightness nor the
\* buffer, flushes nothing, prints the error and leaves the program at the
\* prompt.
C9_MalformedRecovered ==
    [][(pc = "prompt" /\ readTick' # readTick /\ IsMalformed(lastCmd'))
          => /\ brightness' = brightness
             /\ pixels' = pixels
             /\ shown' = shown
             /\ ~didShow'
             /\ message' \in {"invalid_brightness", "unknown_command"}
             /\ pc' = "prompt"]_vars

C9_Witness ==
    /\ pc = "prompt"
    /\ lastCmd = <<"brightness", "abc">>
    /\ message = "invalid_brightness"
    /\ brightness = 255
    /\ pixels = Fill(Blue)

\* C10: SIGINT during an effect started from the command loop clears the
\* strip and puts the program back at the prompt, still running.
C10_InterruptStopsEffectOnly ==
    [][(pc = "running" /\ inLoop /\ interrupted = "none" /\ interrupted' # "none")
          => /\ pc' = "prompt"
             /\ pixels' = Fill(Black)
             /\ shown' = Fill(Black)]_vars

=============================================================================
